---- MODULE Spec2Model ----
(***************************************************************************)
(* MotionValue (src/src/motion/features/layout/types.ts, lines 114-549):   *)
(* a reactive value node with parent/child fan-out, two subscriber         *)
(* channels, frame-synchronised velocity bookkeeping and a single          *)
(* animation handle.                                                       *)
(*                                                                         *)
(* Values are modelled as strings ("5", "15" numeric strings, "red" a      *)
(* non-numeric one, "undefined" the value of an unassigned field).  An     *)
(* absent optional Set (children, updateSubscribers, renderSubscribers)    *)
(* is modelled as the empty sequence: every use in the source is guarded   *)
(* by a truthiness test followed by forEach/delete/clear, which do nothing *)
(* on an empty Set.  Sets iterate in insertion order, hence sequences.     *)
(* Subscriber callbacks are passive observers (they record the value they  *)
(* receive and do not call back into the node).                            *)
(***************************************************************************)
EXTENDS Integers, Sequences, FiniteSets

\* ---------------------------------------------------------------- bounds
MaxNodes == 3
MaxSubs == 3
MaxStarts == 3
MaxFrames == 3
\* Per specification: how many nodes, subscriptions and animations it builds.
MaxAnimNodes == 1
TreeNodes == 3
HandleNodes == 2
HandleSubs == 1
GraphNodes == 2
GraphSubs == 2
DestroyNodes == 2
DestroySubs == 1
DestroyStarts == 2
\* Frames without a set are counted up to here.
QuietCap == 2

\* ------------------------------------------------------------- constants
NoNode == 0
HandleUndefined == -1
HandleNull == 0

NodeIds == 1..MaxNodes
SubIds == 1..MaxSubs
DriverIds == 1..MaxStarts

Undefined == "undefined"
Values == {"5", "15", "red"}
NumericValues == {"5", "15"}
Deltas == {8, 16}
Callbacks == {"f", "g"}
TransformerIds == {"none", "cap"}

\* ------------------------------------------------------- pure functions
NaN == [nan |-> TRUE, n |-> 0]
Num(i) == [nan |-> FALSE, n |-> i]

\* JavaScript's parseFloat on the modelled values.
parseFloat(v) ==
    CASE v = "5" -> Num(5)
      [] v = "15" -> Num(15)
      [] OTHER -> NaN

isFloat(v) == ~parseFloat(v).nan

\* IEEE subtraction as far as the model needs it: NaN is absorbing.
Minus(a, b) == IF a.nan \/ b.nan THEN NaN ELSE Num(a.n - b.n)

\* @popmotion/popcorn: frameDuration ? velocity * (1000 / frameDuration) : 0
velocityPerSecond(velocity, frameDuration) ==
    IF frameDuration = 0 THEN Num(0)
    ELSE IF velocity.nan THEN NaN
    ELSE Num((velocity.n * 1000) \div frameDuration)

\* A transformer is a pure function V -> V; "none" is the absent transformer,
\* "cap" clamps the value to at most 5, "num" maps every value that is not a
\* number onto 5.
ApplyTransformer(t, v) ==
    CASE t = "cap" /\ v = "15" -> "5"
      [] t = "num" /\ v = "red" -> "5"
      [] OTHER -> v

Range(s) == {s[i] : i \in 1..Len(s)}

Remove(s, x) == SelectSeq(s, LAMBDA y : y # x)

\* A trace event: k its kind, n the node, s a subscription/driver id (or the
\* render flag of a set call), v the value passed.
Ev(k, n, s, v) == [k |-> k, n |-> n, s |-> s, v |-> v]

\* ------------------------------------------------------------------ state
VARIABLES
    created,            \* the nodes constructed so far
    current, prev,      \* MotionValue.current / .prev
    timeDelta,          \* MotionValue.timeDelta
    lastUpdated,        \* MotionValue.lastUpdated
    children,           \* MotionValue.children (insertion order)
    parent,             \* MotionValue.parent
    updateSubscribers,  \* MotionValue.updateSubscribers (trampoline ids)
    renderSubscribers,  \* MotionValue.renderSubscribers (trampoline ids)
    transformer,        \* MotionValue.transformer
    stopAnimation,      \* MotionValue.stopAnimation
    canTrackVelocity,   \* MotionValue.canTrackVelocity
    subs,               \* the trampolines created by subscribeTo
    drivers,            \* the animations started by start()
    microtasks,         \* resolved start() promises whose then() is pending
    frame,              \* framesync's frame data {delta, timestamp}
    phase,              \* where the frame loop is
    toRun,              \* postRender callbacks of the frame being processed
    toRunNextFrame,     \* postRender callbacks registered for the next pass
    trace,              \* the calls made by the last operation, in order
    lastSet,            \* per node, its last set call: the value held
                        \* before it, the clock's delta, timestamp and phase
                        \* at the call, the whole frames elapsed since
    numericInit,        \* per node, whether its constructor's init argument
                        \* was a number
    destroyed,          \* nodes on which destroy() was called
    deadSubs            \* trampolines that were subscribed when destroy() ran

nodeVars == <<created, current, prev, timeDelta, lastUpdated, children, parent,
              transformer, canTrackVelocity>>
subVars == <<updateSubscribers, renderSubscribers, subs>>
animVars == <<stopAnimation, drivers, microtasks>>
clockVars == <<frame, phase, toRun, toRunNextFrame>>
ghostVars == <<trace, lastSet, numericInit, destroyed, deadSubs>>
vars == <<nodeVars, subVars, animVars, clockVars, ghostVars>>

\* The state before any node exists and before the first frame: framesync
\* starts with frame = {delta: 0, timestamp: 0}; field initialisers as in the
\* class body.
Init ==
    /\ created = {}
    /\ current = [n \in NodeIds |-> Undefined]
    /\ prev = [n \in NodeIds |-> Undefined]
    /\ timeDelta = [n \in NodeIds |-> 0]
    /\ lastUpdated = [n \in NodeIds |-> 0]
    /\ children = [n \in NodeIds |-> <<>>]
    /\ parent = [n \in NodeIds |-> NoNode]
    /\ updateSubscribers = [n \in NodeIds |-> <<>>]
    /\ renderSubscribers = [n \in NodeIds |-> <<>>]
    /\ transformer = [n \in NodeIds |-> "none"]
    /\ stopAnimation = [n \in NodeIds |-> HandleUndefined]
    /\ canTrackVelocity = [n \in NodeIds |-> FALSE]
    /\ subs = <<>>
    /\ drivers = <<>>
    /\ microtasks = <<>>
    /\ frame = [delta |-> 0, timestamp |-> 0]
    /\ phase = "idle"
    /\ toRun = <<>>
    /\ toRunNextFrame = <<>>
    /\ trace = <<>>
    /\ lastSet = [n \in NodeIds |->
                    [from |-> Undefined, delta |-> 0, stamp |-> -1,
                     phase |-> "idle", quiet |-> 0]]
    /\ numericInit = [n \in NodeIds |-> FALSE]
    /\ destroyed = {}
    /\ deadSubs = {}

\* ---------------------------------------------------------------- set()
\* The fields one set() call reads and writes, threaded through the recursion
\* over the children: q is framesync's postRender buffer for the next pass, tr
\* the calls made so far.
Heap(tr) ==
    [current |-> current, prev |-> prev, timeDelta |-> timeDelta,
     lastUpdated |-> lastUpdated, transformer |-> transformer,
     q |-> toRunNextFrame, tr |-> tr, lastSet |-> lastSet]

Cb(f, n) == [f |-> f, n |-> n]

\* framesync's step.schedule(process): the callback joins the buffer of the
\* next postRender pass unless it is already in it.
Schedule(q, cb) == IF cb \in Range(q) THEN q ELSE Append(q, cb)

\* Commit without the transformer.
Commit_Raw(h, n, v) ==
    [h EXCEPT !.prev[n] = h.current[n], !.current[n] = v]

\* this.prev = this.current; this.current = transformer ? transformer(v) : v
Commit(h, n, v) ==
    [h EXCEPT !.prev[n] = h.current[n],
              !.current[n] = ApplyTransformer(h.transformer[n], v)]

\* History only: the call joins the trace, and the node's last set is now
\* this one (a frame under way does not count as a whole frame since).
Entered(h, n, v, render) ==
    [h EXCEPT !.tr = Append(h.tr, Ev("set", n, IF render THEN 1 ELSE 0, v)),
              !.lastSet[n] = [from |-> h.current[n], delta |-> frame.delta,
                              stamp |-> frame.timestamp, phase |-> phase,
                              quiet |-> IF phase = "idle" THEN 0 ELSE -1]]

\* subscribers.forEach(this.notifySubscriber): each trampoline is called, in
\* insertion order, with this.current.
NotifyAll(h, kind, n, list) ==
    [h EXCEPT !.tr = h.tr \o [i \in 1..Len(list) |->
                                Ev(kind, n, list[i], h.current[n])]]

\* NotifyUpdate without the comparison of prev and current.
NotifyUpdate_Always(h, n) == NotifyAll(h, "logic", n, updateSubscribers[n])

\* if (this.updateSubscribers && this.prev !== this.current) forEach(notify)
NotifyUpdate(h, n) ==
    IF h.prev[n] # h.current[n]
    THEN NotifyAll(h, "logic", n, updateSubscribers[n])
    ELSE h

\* NotifyRender gated on a changed value, as the logic channel is.
NotifyRender_OnChange(h, n, render) ==
    IF render /\ h.prev[n] # h.current[n]
    THEN NotifyAll(h, "render", n, renderSubscribers[n])
    ELSE h

\* if (render && this.renderSubscribers) forEach(notify)
NotifyRender(h, n, render) ==
    IF render THEN NotifyAll(h, "render", n, renderSubscribers[n]) ELSE h

\* Bookkeep without the timeDelta assignment.
Bookkeep_NoDelta(h, n) ==
    IF h.lastUpdated[n] # frame.timestamp
    THEN [h EXCEPT !.lastUpdated[n] = frame.timestamp,
                   !.q = Append(h.q, [f |-> "scheduleVelocityCheck", n |-> n])]
    ELSE h

\* const { delta, timestamp } = getFrameData(); if (lastUpdated !== timestamp)
\* { timeDelta = delta; lastUpdated = timestamp; sync.postRender(...) }
Bookkeep(h, n) ==
    IF h.lastUpdated[n] # frame.timestamp
    THEN [h EXCEPT !.timeDelta[n] = frame.delta,
                   !.lastUpdated[n] = frame.timestamp,
                   !.q = Schedule(h.q, Cb("scheduleVelocityCheck", n))]
    ELSE h

RECURSIVE set(_, _, _, _)
RECURSIVE SetChildren(_, _, _)
RECURSIVE SetChildren_Stale(_, _, _)
RECURSIVE SetChildren_Quiet(_, _, _)

\* setChild calling child.set(this.current, false).
SetChildren_Quiet(h, n, i) ==
    IF i > Len(children[n]) THEN h
    ELSE SetChildren_Quiet(set(h, children[n][i], h.current[n], FALSE),
                           n, i + 1)

\* setChild handing the child the value the parent held before the call.
SetChildren_Stale(h, n, i) ==
    IF i > Len(children[n]) THEN h
    ELSE SetChildren_Stale(set(h, children[n][i], h.prev[n], TRUE), n, i + 1)

\* this.children.forEach(this.setChild), setChild = child => child.set(this.current)
SetChildren(h, n, i) ==
    IF i > Len(children[n]) THEN h
    ELSE SetChildren(set(h, children[n][i], h.current[n], TRUE), n, i + 1)

\* set with the render subscribers notified before the children are set.
set_RenderFirst(h, n, v, render) ==
    LET h0 == Entered(h, n, v, render)
        h1 == Commit(h0, n, v)
        h2 == NotifyUpdate(h1, n)
        h3 == NotifyRender(h2, n, render)
        h4 == SetChildren(h3, n, 1)
        h5 == Bookkeep(h4, n)
    IN [h5 EXCEPT !.tr = Append(h5.tr, Ev("end", n, 0, h5.current[n]))]

\* MotionValue.set(v, render = true)
set(h, n, v, render) ==
    LET h0 == Entered(h, n, v, render)
        h1 == Commit(h0, n, v)
        h2 == NotifyUpdate(h1, n)
        h3 == SetChildren(h2, n, 1)
        h4 == NotifyRender(h3, n, render)
        h5 == Bookkeep(h4, n)
    IN [h5 EXCEPT !.tr = Append(h5.tr, Ev("end", n, 0, h5.current[n]))]

\* The heap written back to the state.
Store(h) ==
    /\ current' = h.current
    /\ prev' = h.prev
    /\ timeDelta' = h.timeDelta
    /\ lastUpdated' = h.lastUpdated
    /\ transformer' = h.transformer
    /\ toRunNextFrame' = h.q
    /\ trace' = h.tr
    /\ lastSet' = h.lastSet

\* get()
get(n) == current[n]

\* getVelocity without the canTrackVelocity test.
getVelocity_Untracked(n) ==
    velocityPerSecond(Minus(parseFloat(current[n]), parseFloat(prev[n])),
                      timeDelta[n])

\* getVelocity()
getVelocity(n) ==
    IF canTrackVelocity[n]
    THEN velocityPerSecond(Minus(parseFloat(current[n]), parseFloat(prev[n])),
                           timeDelta[n])
    ELSE Num(0)

\* isAnimating(): !!this.stopAnimation
isAnimating(n) == stopAnimation[n] > 0

NewNode == CHOOSE n \in NodeIds \ created : \A m \in NodeIds \ created : n <= m

\* new MotionValue(init, { transformer, parent }) for the fresh node c
Construct(c, init, t, p) ==
    LET h == set([Heap(<<Ev("new", c, p, init)>>) EXCEPT !.transformer[c] = t],
                 c, init, FALSE)
    IN /\ Store(h)
       /\ created' = created \cup {c}
       /\ parent' = [parent EXCEPT ![c] = p]
       /\ canTrackVelocity' = [canTrackVelocity EXCEPT ![c] = isFloat(h.current[c])]
       /\ numericInit' = [numericInit EXCEPT ![c] = isFloat(init)]

\* motionValue(init, opts)
MotionValueNew(init, t, p) ==
    /\ created # NodeIds
    /\ p \in created \cup {NoNode}
    /\ Construct(NewNode, init, t, p)
    /\ UNCHANGED <<children, subVars, animVars, frame, phase, toRun,
                   destroyed, deadSubs>>

\* addChild registering the child with every existing node.
AddChild_Everywhere(n, t, cp) ==
    /\ created # NodeIds
    /\ n \in created
    /\ cp \in created \cup {NoNode}
    /\ Construct(NewNode, current[n], t, IF cp = NoNode THEN n ELSE cp)
    /\ children' = [m \in NodeIds |->
                       IF m \in created THEN Append(children[m], NewNode)
                       ELSE children[m]]
    /\ UNCHANGED <<subVars, animVars, frame, phase, toRun, destroyed, deadSubs>>

\* addChild(config): config.parent, when present, overrides parent: this
\* (the spread comes second); cp = NoNode stands for a config without parent.
AddChild(n, t, cp) ==
    /\ created # NodeIds
    /\ n \in created
    /\ cp \in created \cup {NoNode}
    /\ Construct(NewNode, current[n], t, IF cp = NoNode THEN n ELSE cp)
    /\ children' = [children EXCEPT ![n] = Append(@, NewNode)]
    /\ UNCHANGED <<subVars, animVars, frame, phase, toRun, destroyed, deadSubs>>

\* removeChild(child)
RemoveChildren(ch, n, c) == [ch EXCEPT ![n] = Remove(@, c)]

RemoveChild(n, c) ==
    /\ n \in created /\ c \in created
    /\ children' = RemoveChildren(children, n, c)
    /\ trace' = <<Ev("removeChild", n, c, Undefined)>>
    /\ UNCHANGED <<created, current, prev, timeDelta, lastUpdated, parent,
                   transformer, canTrackVelocity, subVars, animVars, clockVars,
                   lastSet, destroyed, numericInit, deadSubs>>

\* set(v, render) called from outside
Set(n, v, render) ==
    /\ n \in created
    /\ Store(set(Heap(<<>>), n, v, render))
    /\ UNCHANGED <<created, children, parent, canTrackVelocity, subVars,
                   animVars, frame, phase, toRun, destroyed, numericInit,
                   deadSubs>>

\* -------------------------------------------------------- subscriptions
\* subscribeTo(subscriptions, subscription): a new trampoline, identified by
\* its index in subs, is added to the Set; the returned closure deletes it.
subscribeTo(list, id) == Append(list, id)

Trampoline(n, ch, fn) == [n |-> n, ch |-> ch, fn |-> fn]

\* onChange(subscription)
OnChange(n, fn) ==
    /\ n \in created
    /\ Len(subs) < MaxSubs
    /\ subs' = Append(subs, Trampoline(n, "logic", fn))
    /\ updateSubscribers' =
           [updateSubscribers EXCEPT ![n] = subscribeTo(@, Len(subs) + 1)]
    /\ trace' = <<Ev("onChange", n, Len(subs) + 1, fn)>>
    /\ UNCHANGED <<nodeVars, renderSubscribers, animVars, clockVars,
                   lastSet, destroyed, numericInit, deadSubs>>

\* onRenderRequest(subscription): notifySubscriber(subscription) first, then
\* subscribeTo
OnRenderRequest(n, fn) ==
    /\ n \in created
    /\ Len(subs) < MaxSubs
    /\ subs' = Append(subs, Trampoline(n, "render", fn))
    /\ renderSubscribers' =
           [renderSubscribers EXCEPT ![n] = subscribeTo(@, Len(subs) + 1)]
    /\ trace' = <<Ev("onRenderRequest", n, Len(subs) + 1, fn),
                  Ev("render", n, Len(subs) + 1, current[n])>>
    /\ UNCHANGED <<nodeVars, updateSubscribers, animVars, clockVars,
                   lastSet, destroyed, numericInit, deadSubs>>

\* A delete that removes every trampoline of the same callback function.
unsubscribe_ByCallback(list, id) ==
    SelectSeq(list, LAMBDA y : subs[y].fn # subs[id].fn)

\* subscriptions.delete(updateSubscriber)
unsubscribe(list, id) == Remove(list, id)

\* The closure returned by subscribeTo: () => subscriptions.delete(trampoline)
Unsubscribe(id) ==
    /\ id \in 1..Len(subs)
    /\ updateSubscribers' =
           IF subs[id].ch = "logic"
           THEN [updateSubscribers EXCEPT ![subs[id].n] = unsubscribe(@, id)]
           ELSE updateSubscribers
    /\ renderSubscribers' =
           IF subs[id].ch = "render"
           THEN [renderSubscribers EXCEPT ![subs[id].n] = unsubscribe(@, id)]
           ELSE renderSubscribers
    /\ trace' = <<Ev("unsubscribe", subs[id].n, id, subs[id].fn)>>
    /\ UNCHANGED <<nodeVars, subs, animVars, clockVars, lastSet,
                   destroyed, numericInit, deadSubs>>

\* ------------------------------------------------------------- animation
\* An animation started by start(): n its node, st whether it is still
\* running, cancels how often its cancellation function was called.
Driver(n, st) == [n |-> n, st |-> st, cancels |-> 0]

Anim(tr) == [stop |-> stopAnimation, drivers |-> drivers, tr |-> tr]

\* clearAnimation leaving the handle in place.
clearAnimation_Keeps(a, n) == a

\* clearAnimation()
clearAnimation(a, n) == [a EXCEPT !.stop[n] = HandleNull]

\* The cancellation function of driver d is called.
Cancelled(a, n) ==
    LET d == a.stop[n]
    IN [a EXCEPT !.drivers[d].cancels = @ + 1,
                 !.drivers[d].st = IF @ = "active" THEN "cancelled" ELSE @,
                 !.tr = Append(@, Ev("cancel", n, d, Undefined))]

\* stop without the clearAnimation call.
stop_KeepsHandle(a, n) == IF a.stop[n] > 0 THEN Cancelled(a, n) ELSE a

\* stop(): if (this.stopAnimation) this.stopAnimation(); this.clearAnimation()
stop(a, n) ==
    clearAnimation(IF a.stop[n] > 0 THEN Cancelled(a, n) ELSE a, n)

\* start(animation): this.stop(); this.stopAnimation = animation(resolve).
\* immediate: the driver calls its completion callback before it returns.
start(a, n, immediate) ==
    LET a1 == stop(a, n)
        d == Len(a1.drivers) + 1
    IN [a1 EXCEPT !.drivers = Append(@, Driver(n, IF immediate THEN "completed"
                                                  ELSE "active")),
                  !.tr = Append(@, Ev("invoke", n, d, Undefined)),
                  !.stop[n] = d]

StoreAnim(a) ==
    /\ stopAnimation' = a.stop
    /\ drivers' = a.drivers
    /\ trace' = a.tr

Start(n, immediate) ==
    /\ n \in created
    /\ Len(drivers) < MaxStarts
    /\ StoreAnim(start(Anim(<<Ev("start", n, 0, Undefined)>>), n, immediate))
    /\ microtasks' = IF immediate THEN Append(microtasks, Len(drivers) + 1)
                     ELSE microtasks
    /\ UNCHANGED <<nodeVars, subVars, clockVars, lastSet, destroyed,
                   numericInit, deadSubs>>

Stop(n) ==
    /\ n \in created
    /\ StoreAnim(stop(Anim(<<Ev("stop", n, 0, Undefined)>>), n))
    /\ UNCHANGED <<nodeVars, subVars, microtasks, clockVars, lastSet,
                   destroyed, numericInit, deadSubs>>

\* A running driver calls its completion callback (the promise's resolve):
\* the then() reaction becomes a pending microtask.
Complete(d) ==
    /\ d \in 1..Len(drivers)
    /\ drivers[d].st = "active"
    /\ drivers' = [drivers EXCEPT ![d].st = "completed"]
    /\ microtasks' = Append(microtasks, d)
    /\ trace' = <<Ev("complete", drivers[d].n, d, Undefined)>>
    /\ UNCHANGED <<nodeVars, subVars, stopAnimation, clockVars,
                   lastSet, destroyed, numericInit, deadSubs>>

\* The reaction of start()'s promise: .then(() => this.clearAnimation())
RunThen ==
    /\ microtasks # <<>>
    /\ LET d == Head(microtasks)
       IN StoreAnim(clearAnimation(
              Anim(<<Ev("then", drivers[d].n, d, Undefined)>>), drivers[d].n))
    /\ microtasks' = Tail(microtasks)
    /\ UNCHANGED <<nodeVars, subVars, clockVars, lastSet, destroyed,
                   numericInit, deadSubs>>

\* destroy()
Destroy(n) ==
    /\ n \in created
    /\ updateSubscribers' = [updateSubscribers EXCEPT ![n] = <<>>]
    /\ renderSubscribers' = [renderSubscribers EXCEPT ![n] = <<>>]
    /\ children' = IF parent[n] # NoNode
                   THEN RemoveChildren(children, parent[n], n)
                   ELSE children
    /\ StoreAnim(stop(Anim(<<Ev("destroy", n, 0, Undefined)>>), n))
    /\ destroyed' = destroyed \cup {n}
    /\ deadSubs' = deadSubs \cup Range(updateSubscribers[n])
                            \cup Range(renderSubscribers[n])
    /\ UNCHANGED <<created, current, prev, timeDelta, lastUpdated, parent,
                   transformer, canTrackVelocity, subs, microtasks, clockVars,
                   lastSet, numericInit>>

\* ------------------------------------------------------------ frame loop

\* framesync's processFrame: a new timestamp and delta; the steps before
\* postRender (read, update, render) are the phase "update".
FrameStart(d) ==
    /\ phase = "idle"
    /\ microtasks = <<>>
    /\ frame.timestamp < MaxFrames
    /\ frame' = [delta |-> d, timestamp |-> frame.timestamp + 1]
    /\ phase' = "update"
    /\ trace' = <<Ev("frame", NoNode, 0, Undefined)>>
    /\ UNCHANGED <<nodeVars, subVars, animVars, toRun, toRunNextFrame,
                   lastSet, destroyed, numericInit, deadSubs>>

\* The postRender step starts: the buffers are swapped.
PostRenderStart ==
    /\ phase = "update"
    /\ toRun' = toRunNextFrame
    /\ toRunNextFrame' = <<>>
    /\ phase' = "postRender"
    /\ trace' = <<Ev("postRender", NoNode, 0, Undefined)>>
    /\ UNCHANGED <<nodeVars, subVars, animVars, frame, lastSet,
                   destroyed, numericInit, deadSubs>>

\* scheduleVelocityCheck = () => sync.postRender(this.velocityCheck)
scheduleVelocityCheck(q, n) == Schedule(q, Cb("velocityCheck", n))

\* velocityCheck = ({ timestamp }) => { if (timestamp !== this.lastUpdated)
\* this.prev = this.current }
velocityCheck(pv, n) ==
    IF frame.timestamp # lastUpdated[n] THEN [pv EXCEPT ![n] = current[n]]
    ELSE pv

\* The postRender step runs its next callback.
PostRenderStep ==
    /\ phase = "postRender"
    /\ toRun # <<>>
    /\ LET cb == Head(toRun)
       IN /\ toRunNextFrame' = IF cb.f = "scheduleVelocityCheck"
                               THEN scheduleVelocityCheck(toRunNextFrame, cb.n)
                               ELSE toRunNextFrame
          /\ prev' = IF cb.f = "velocityCheck" THEN velocityCheck(prev, cb.n)
                     ELSE prev
          /\ trace' = <<Ev(cb.f, cb.n, 0, Undefined)>>
    /\ toRun' = Tail(toRun)
    /\ UNCHANGED <<created, current, timeDelta, lastUpdated, children, parent,
                   transformer, canTrackVelocity, subVars, animVars, frame,
                   phase, lastSet, destroyed, numericInit, deadSubs>>

\* The frame is over.
FrameEnd ==
    /\ phase = "postRender"
    /\ toRun = <<>>
    /\ phase' = "idle"
    /\ lastSet' = [n \in NodeIds |->
                     IF n \in created /\ lastSet[n].quiet < QuietCap
                     THEN [lastSet[n] EXCEPT !.quiet = @ + 1]
                     ELSE lastSet[n]]
    /\ trace' = <<Ev("frameEnd", NoNode, 0, Undefined)>>
    /\ UNCHANGED <<nodeVars, subVars, animVars, frame, toRun, toRunNextFrame,
                   destroyed, numericInit, deadSubs>>

\* ------------------------------------------------------- specifications
\* The operation that produced the current state.
LastOp == IF trace = <<>> THEN Ev("init", NoNode, 0, Undefined) ELSE trace[1]

\* Every operation, with every input.
Next ==
    \/ \E init \in Values, t \in TransformerIds, p \in created \cup {NoNode} :
           MotionValueNew(init, t, p)
    \/ \E n \in created, t \in TransformerIds, cp \in created \cup {NoNode} :
           AddChild(n, t, cp)
    \/ \E n \in created, c \in created : RemoveChild(n, c)
    \/ \E n \in created, fn \in Callbacks : OnChange(n, fn)
    \/ \E n \in created, fn \in Callbacks : OnRenderRequest(n, fn)
    \/ \E id \in SubIds : Unsubscribe(id)
    \/ \E n \in created, v \in Values, render \in BOOLEAN : Set(n, v, render)
    \/ \E n \in created, immediate \in BOOLEAN : Start(n, immediate)
    \/ \E n \in created : Stop(n)
    \/ \E d \in DriverIds : Complete(d)
    \/ RunThen
    \/ \E n \in created : Destroy(n)
    \/ \E d \in Deltas : FrameStart(d)
    \/ PostRenderStart
    \/ PostRenderStep
    \/ FrameEnd

Spec == Init /\ [][Next]_vars

\* Animation ownership: nodes, start/stop/destroy, drivers completing and the
\* promise reactions running, in any order.
NextAnim ==
    \/ /\ Cardinality(created) < MaxAnimNodes
       /\ MotionValueNew("5", "none", NoNode)
    \/ \E n \in created, immediate \in BOOLEAN : Start(n, immediate)
    \/ \E n \in created : Stop(n)
    \/ \E d \in DriverIds : Complete(d)
    \/ RunThen
    \/ \E n \in created : Destroy(n)

SpecAnim == Init /\ [][NextAnim]_vars

GraphValues == {"5", "15"}

\* Value propagation: nodes and children with and without transformers, both
\* subscriber channels, set with either render argument, unsubscription,
\* removal and destruction, in any order.
NextGraph ==
    \/ /\ Cardinality(created) < GraphNodes
       /\ \E init \in GraphValues, t \in TransformerIds :
              MotionValueNew(init, t, NoNode)
    \/ /\ Cardinality(created) < GraphNodes
       /\ \E n \in created, t \in TransformerIds : AddChild(n, t, NoNode)
    \/ \E n \in created, c \in created : RemoveChild(n, c)
    \/ /\ Len(subs) < GraphSubs
       /\ \E n \in created : OnChange(n, "f")
    \/ /\ Len(subs) < GraphSubs
       /\ \E n \in created : OnRenderRequest(n, "f")
    \/ \E id \in SubIds : Unsubscribe(id)
    \/ \E n \in created, v \in GraphValues, render \in BOOLEAN :
           Set(n, v, render)
    \/ \E n \in created : Destroy(n)

SpecGraph == Init /\ [][NextGraph]_vars

\* Propagation order: one root and its descendants, subscribers on both
\* channels at any depth, set on any node.
NextChain ==
    \/ /\ created = {}
       /\ MotionValueNew("5", "none", NoNode)
    \/ \E n \in created : AddChild(n, "none", NoNode)
    \/ \E n \in created : OnChange(n, "f")
    \/ \E n \in created : OnRenderRequest(n, "f")
    \/ \E n \in created, v \in GraphValues, render \in BOOLEAN :
           Set(n, v, render)

SpecChain == Init /\ [][NextChain]_vars

\* Destruction: a parent and its child, a subscriber, animations on the
\* child, set on either node, destroy.
NextDestroy ==
    \/ /\ created = {}
       /\ MotionValueNew("5", "none", NoNode)
    \/ /\ Cardinality(created) < DestroyNodes
       /\ \E n \in created : AddChild(n, "none", NoNode)
    \/ /\ Len(subs) < DestroySubs
       /\ \E n \in created : OnChange(n, "f")
    \/ /\ Len(subs) < DestroySubs
       /\ \E n \in created : OnRenderRequest(n, "f")
    \/ \E n \in created, v \in GraphValues : Set(n, v, TRUE)
    \/ /\ Len(drivers) < DestroyStarts
       /\ \E n \in created : Start(n, FALSE)
    \/ \E d \in DriverIds : Complete(d)
    \/ RunThen
    \/ \E n \in created : Destroy(n)

SpecDestroy == Init /\ [][NextDestroy]_vars

\* Velocity bookkeeping: a node constructed and set before, during and
\* between frames of either delta.
NextClock ==
    \/ /\ created = {}
       /\ \E init \in Values : MotionValueNew(init, "none", NoNode)
    \/ \E n \in created, v \in NumericValues : Set(n, v, TRUE)
    \/ \E d \in Deltas : FrameStart(d)
    \/ PostRenderStart
    \/ PostRenderStep
    \/ FrameEnd

SpecClock == Init /\ [][NextClock]_vars

\* The node graph: nodes constructed with or without a parent option,
\* children added with or without a parent field in the config, removed and
\* destroyed, set on any node.
NextTree ==
    \/ /\ Cardinality(created) < TreeNodes
       /\ \E p \in created \cup {NoNode} : MotionValueNew("5", "none", p)
    \/ /\ Cardinality(created) < TreeNodes
       /\ \E n \in created, cp \in created \cup {NoNode} :
              AddChild(n, "none", cp)
    \/ \E n \in created, c \in created : RemoveChild(n, c)
    \/ \E n \in created, v \in GraphValues : Set(n, v, TRUE)
    \/ \E n \in created : Destroy(n)

SpecTree == Init /\ [][NextTree]_vars

TrackTransformers == {"none", "num"}

\* Velocity tracking: a node constructed with any value, with or without a
\* transformer that turns every value into a number, set to any value before,
\* during and between frames.
NextTrack ==
    \/ /\ created = {}
       /\ \E init \in Values, t \in TrackTransformers :
              MotionValueNew(init, t, NoNode)
    \/ \E n \in created, v \in Values : Set(n, v, TRUE)
    \/ \E d \in Deltas : FrameStart(d)
    \/ PostRenderStart
    \/ PostRenderStep
    \/ FrameEnd

SpecTrack == Init /\ [][NextTrack]_vars

\* The animation handle: a node and its child, a subscriber, animations
\* started, stopped, completing (before or after start returns) and their
\* promise reactions, destroy, in any order.
NextHandle ==
    \/ /\ created = {}
       /\ MotionValueNew("5", "none", NoNode)
    \/ /\ Cardinality(created) < HandleNodes
       /\ \E n \in created : AddChild(n, "none", NoNode)
    \/ /\ Len(subs) < HandleSubs
       /\ \E n \in created : OnChange(n, "f")
    \/ /\ Len(subs) < HandleSubs
       /\ \E n \in created : OnRenderRequest(n, "f")
    \/ \E n \in created, immediate \in BOOLEAN : Start(n, immediate)
    \/ \E n \in created : Stop(n)
    \/ \E d \in DriverIds : Complete(d)
    \/ RunThen
    \/ \E n \in created : Destroy(n)

SpecHandle == Init /\ [][NextHandle]_vars

\* ------------------------------------------------------------------ claims
\* The drivers started on node n that were neither cancelled nor completed.
ActiveDrivers(n) ==
    {d \in 1..Len(drivers) : drivers[d].n = n /\ drivers[d].st = "active"}

DriversOf(n) == {d \in 1..Len(drivers) : drivers[d].n = n}

\* The driver most recently started on n (0 when none was).
LatestDriver(n) ==
    IF DriversOf(n) = {} THEN 0
    ELSE CHOOSE d \in DriversOf(n) : \A e \in DriversOf(n) : e <= d

\* C1: single-flight animation ownership: at every moment at most one driver
\* started on a node is neither cancelled nor completed (start cancels the
\* animation still active before it invokes the new driver).
C1_SingleFlight ==
    \A n \in created : Cardinality(ActiveDrivers(n)) <= 1

\* C2: whenever the animation most recently started on a node has neither
\* been stopped nor signalled completion, isAnimating() is true.
C2_AnimatingWhileActive ==
    \A n \in created :
        (LatestDriver(n) # 0 /\ drivers[LatestDriver(n)].st = "active")
            => isAnimating(n)

\* C9 as stated: isAnimating() is false immediately after stop() returns and
\* immediately after the driver's completion callback fires.
C9_FalseAfterStopOrComplete ==
    LastOp.k \in {"stop", "complete"} => ~isAnimating(LastOp.n)

\* C9 as amended: isAnimating() is false immediately after stop() returns and
\* immediately after the deferred reaction to the completion signal (the
\* then() of start's promise) has run.
C9_FalseAfterStopOrThen ==
    LastOp.k \in {"stop", "then"} => ~isAnimating(LastOp.n)

\* C9 witness: a stop() that cancelled a running animation, and the reaction
\* of a completed one, have both been seen with the handle cleared.
C9_Witness ==
    /\ LastOp.k = "then"
    /\ drivers[LastOp.s].st = "completed"
    /\ ~isAnimating(LastOp.n)
    /\ \E d \in 1..Len(drivers) : drivers[d].st = "cancelled"

\* The whole frames elapsed since node n's last set call.
quiet(n) == lastSet[n].quiet

\* Node n has been set since its construction.
WasSet(n) == lastSet[n].from # Undefined

\* C3: velocity converges to 0: once two whole frames have elapsed after the
\* last set of a velocity-tracked node, previous equals current and
\* getVelocity() returns 0.
C3_VelocityConverges ==
    \A n \in created :
        (canTrackVelocity[n] /\ WasSet(n) /\ quiet(n) >= 2)
            => (prev[n] = current[n] /\ getVelocity(n) = Num(0))

\* Node n was changed by its last set from one number to another.
NumericSet(n) ==
    /\ canTrackVelocity[n]
    /\ WasSet(n)
    /\ isFloat(lastSet[n].from)
    /\ isFloat(current[n])

\* (b - a) * 1000 / d for node n's last set from a to b.
RatePerSecond(n, d) ==
    Num(((parseFloat(current[n]).n - parseFloat(lastSet[n].from).n) * 1000) \div d)

\* C10 as stated: a node set (between frames) from a to b returns
\* (b - a) * 1000 / d from getVelocity() after exactly one frame, of delta d,
\* has elapsed with no further set, whatever the clock state at the set.
C10_VelocityAfterOneFrame ==
    \A n \in created :
        (NumericSet(n) /\ lastSet[n].phase = "idle" /\ quiet(n) = 1
         /\ phase = "idle")
            => getVelocity(n) = RatePerSecond(n, frame.delta)

\* C10 as amended: from the set until a later frame's velocity check resets
\* previous, getVelocity() returns (b - a) * 1000 / d where d is the delta
\* the clock reported when set was called (the last observed frame delta),
\* and 0 when that delta is 0 (a set before the first frame).
C10_VelocityFromDeltaAtSet ==
    \A n \in created :
        (NumericSet(n) /\ prev[n] = lastSet[n].from)
            => getVelocity(n) = IF lastSet[n].delta = 0 THEN Num(0)
                                ELSE RatePerSecond(n, lastSet[n].delta)

\* C10 witness: a node set from 5 to 15 after a frame of 8 ms; a frame of
\* 16 ms has elapsed since, and getVelocity() returns 10 * 1000 / 8.
C10_Witness ==
    \E n \in created :
        /\ NumericSet(n) /\ lastSet[n].phase = "idle" /\ quiet(n) = 1
        /\ phase = "idle"
        /\ lastSet[n].from = "5" /\ current[n] = "15"
        /\ lastSet[n].delta = 8 /\ frame.delta = 16
        /\ getVelocity(n) = Num(1250)

\* ------------------------------------------------- the trace of a call
\* How often the last operation called trampoline id on channel k.
Count(k, id) ==
    Cardinality({i \in 1..Len(trace) : trace[i].k = k /\ trace[i].s = id})

\* The last operation called set on node n (itself or by propagation).
SetIn(n) == \E i \in 1..Len(trace) : trace[i].k = "set" /\ trace[i].n = n

\* ... and with a render argument that is not false.
RenderedSetIn(n) ==
    \E i \in 1..Len(trace) :
        trace[i].k = "set" /\ trace[i].n = n /\ trace[i].s = 1

\* Where that set call starts and ends in the trace.
SetIdx(n) == CHOOSE i \in 1..Len(trace) : trace[i].k = "set" /\ trace[i].n = n
EndIdx(n) == CHOOSE i \in 1..Len(trace) : trace[i].k = "end" /\ trace[i].n = n

\* The subscriptions made by onChange / onRenderRequest, and whether one is
\* still in its node's Set.
LogicSubs == {id \in 1..Len(subs) : subs[id].ch = "logic"}
RenderSubs == {id \in 1..Len(subs) : subs[id].ch = "render"}
Subscribed(id) ==
    id \in Range(IF subs[id].ch = "logic" THEN updateSubscribers[subs[id].n]
                 ELSE renderSubscribers[subs[id].n])

\* The set call changed node n's committed value.
Changed(n) == lastSet[n].from # current[n]

\* C4: during a set call each active onChange subscription of the node is
\* invoked exactly once when the committed (transformed) value differs from
\* the value held immediately before the call, and not at all when it is
\* equal; a subscription that is not active is never invoked.
C4_LogicOncePerChange ==
    LastOp.k = "set" =>
        \A id \in LogicSubs :
            Count("logic", id) =
                IF Subscribed(id) /\ SetIn(subs[id].n) /\ Changed(subs[id].n)
                THEN 1 ELSE 0

\* C4 witness: one set call in which a parent's value changed and its
\* onChange subscriber was invoked once, while its child, whose transformer
\* mapped the propagated value onto the value it already held, did not
\* invoke its own onChange subscriber.
C4_Witness ==
    /\ LastOp.k = "set"
    /\ \E a \in LogicSubs, b \in LogicSubs :
        /\ Subscribed(a) /\ Subscribed(b)
        /\ subs[b].n \in Range(children[subs[a].n])
        /\ SetIn(subs[a].n) /\ Changed(subs[a].n) /\ Count("logic", a) = 1
        /\ SetIn(subs[b].n) /\ ~Changed(subs[b].n) /\ Count("logic", b) = 0

\* C5: a callback passed to onRenderRequest is invoked exactly once, with the
\* current value, during the onRenderRequest call; afterwards, while it is
\* subscribed, exactly once per set call on its node whose render argument is
\* not false, changed value or not, and never for a set with render = false.
C5_RenderOncePerSet ==
    /\ LastOp.k = "onRenderRequest" =>
           /\ Count("render", LastOp.s) = 1
           /\ trace[2] = Ev("render", LastOp.n, LastOp.s, current[LastOp.n])
    /\ LastOp.k = "set" =>
           \A id \in RenderSubs :
               Count("render", id) =
                   IF Subscribed(id) /\ RenderedSetIn(subs[id].n)
                   THEN 1 ELSE 0

\* C5 witness: a set with render = true that left the value unchanged and
\* invoked the node's render subscriber once.
C5_Witness ==
    /\ LastOp.k = "set" /\ LastOp.s = 1
    /\ ~Changed(LastOp.n)
    /\ \E id \in RenderSubs :
           Subscribed(id) /\ subs[id].n = LastOp.n /\ Count("render", id) = 1

\* C6 as stated: when P.set(v) returns, every child C of P holds v passed
\* through C's transformer, whether or not P has a transformer of its own.
C6_ChildHoldsArgument ==
    LastOp.k = "set" =>
        \A c \in Range(children[LastOp.n]) :
            get(c) = ApplyTransformer(transformer[c], LastOp.v)

\* C6 as amended: when P.set(v) returns, every child C of P holds P's
\* committed value (v passed through P's transformer, that is P.get())
\* passed through C's transformer.
C6_ChildHoldsParentValue ==
    LastOp.k = "set" =>
        \A c \in Range(children[LastOp.n]) :
            /\ get(c) = ApplyTransformer(transformer[c],
                            ApplyTransformer(transformer[LastOp.n], LastOp.v))
            /\ get(c) = ApplyTransformer(transformer[c], get(LastOp.n))

\* C6 witness: a parent with a transformer was set to 15, committed 5, and
\* its child, which held 15 and has no transformer, now holds 5.
C6_Witness ==
    /\ LastOp.k = "set" /\ LastOp.v = "15"
    /\ transformer[LastOp.n] = "cap"
    /\ \E c \in Range(children[LastOp.n]) :
           transformer[c] = "none" /\ lastSet[c].from = "15" /\ get(c) = "5"

\* C8: within one set call on a node, every onChange notification of the
\* node precedes the set of any of its children, and each child's set, with
\* everything it triggers, has ended before any render subscriber of the node
\* is notified.
C8_NotificationOrder ==
    LastOp.k = "set" =>
        \A m \in created : SetIn(m) =>
            /\ \A i \in 1..Len(trace) :
                   trace[i].n = m => (SetIdx(m) <= i /\ i <= EndIdx(m))
            /\ \A c \in Range(children[m]) :
                   /\ SetIn(c)
                   /\ SetIdx(m) < SetIdx(c) /\ EndIdx(c) < EndIdx(m)
                   /\ \A i \in 1..Len(trace) :
                          /\ (trace[i].k = "logic" /\ trace[i].n = m)
                                 => i < SetIdx(c)
                          /\ (trace[i].k = "render" /\ trace[i].n = m)
                                 => EndIdx(c) < i

\* C8 witness: a set on a node with an onChange and a render subscriber, a
\* child with a render subscriber of its own, and a grandchild: all three
\* subscribers were notified.
C8_Witness ==
    /\ LastOp.k = "set"
    /\ \E a \in LogicSubs, b \in RenderSubs, r \in RenderSubs :
        /\ subs[a].n = LastOp.n /\ subs[r].n = LastOp.n
        /\ subs[b].n \in Range(children[LastOp.n])
        /\ children[subs[b].n] # <<>>
        /\ Count("logic", a) = 1 /\ Count("render", b) = 1
        /\ Count("render", r) = 1

\* C7: after destroy() on a node C that has a parent, the parent's child set
\* does not contain C; a later set on the parent neither changes C's value
\* nor invokes a callback that was subscribed to C before the destroy; when
\* destroy returns, C's active animation has been cancelled and isAnimating()
\* is false.
C7_DestroyDetaches ==
    \A c \in destroyed : parent[c] # NoNode =>
        /\ c \notin Range(children[parent[c]])
        /\ (LastOp.k = "set" /\ LastOp.n = parent[c]) =>
               /\ ~(SetIn(c) /\ Changed(c))
               /\ \A i \in 1..Len(trace) :
                      trace[i].k \in {"logic", "render"}
                          => trace[i].s \notin deadSubs
        /\ (LastOp.k = "destroy" /\ LastOp.n = c) =>
               (~isAnimating(c) /\ ActiveDrivers(c) = {})

\* C11 as stated: a node constructed with a non-numeric initial value returns
\* 0 from getVelocity() in every state, whatever it was set to since.
C11_ZeroForNonNumericInit ==
    \A n \in created : ~numericInit[n] => getVelocity(n) = Num(0)

\* C11 as amended: canTrackVelocity is what isFloat says of the value
\* committed at construction (the initial value passed through the node's
\* transformer), it never changes afterwards, and a node for which it is
\* false returns 0 from getVelocity() in every state.
C11_ZeroForNonNumericCommit ==
    /\ [](LastOp.k = "new" =>
             canTrackVelocity[LastOp.n] = isFloat(current[LastOp.n]))
    /\ [][\A n \in created : canTrackVelocity'[n] = canTrackVelocity[n]]_vars
    /\ [](\A n \in created : ~canTrackVelocity[n] => getVelocity(n) = Num(0))

\* C11 witness: a node constructed with "red" and no transformer went from 5
\* to 15 in a frame with a recorded delta, and getVelocity() returns 0.
C11_Witness ==
    \E n \in created :
        /\ ~numericInit[n] /\ transformer[n] = "none"
        /\ prev[n] = "5" /\ current[n] = "15" /\ timeDelta[n] # 0
        /\ getVelocity(n) = Num(0)

\* C12: the unsubscribe function returned by onChange or onRenderRequest
\* removes the one subscription created by that call and leaves every other
\* subscription, of the same callback function or not, in place; called
\* again, or after destroy, it changes nothing; and a subscription that is in
\* place is notified by every set on its node that notifies its channel.
C12_UnsubscribeExactlyOne ==
    /\ [][\A id \in 1..Len(subs) :
             (LastOp'.k = "unsubscribe" /\ LastOp'.s = id) =>
                 /\ ~Subscribed(id)'
                 /\ \A o \in (1..Len(subs)) \ {id} :
                        Subscribed(o)' = Subscribed(o)
                 /\ ~Subscribed(id) =>
                        UNCHANGED <<updateSubscribers, renderSubscribers>>]_vars
    /\ [](LastOp.k = "set" =>
             \A id \in 1..Len(subs) :
                 (/\ Subscribed(id)
                  /\ IF subs[id].ch = "logic"
                     THEN SetIn(subs[id].n) /\ Changed(subs[id].n)
                     ELSE RenderedSetIn(subs[id].n))
                     => Count(subs[id].ch, id) = 1)

\* C12 witness: of two subscriptions of the same callback on the same channel
\* of one node, the first was just unsubscribed and the second is in place.
C12_Witness ==
    /\ LastOp.k = "unsubscribe"
    /\ ~Subscribed(LastOp.s)
    /\ \E o \in 1..Len(subs) :
           /\ o # LastOp.s /\ Subscribed(o)
           /\ subs[o].n = subs[LastOp.s].n /\ subs[o].ch = subs[LastOp.s].ch
           /\ subs[o].fn = subs[LastOp.s].fn

\* C13: when a set(x) call on a node returns (called from outside with either
\* render argument, by propagation from the parent, or by the constructor),
\* get() on that node returns its transformer applied to x, and x itself
\* when it has no transformer.
C13_GetIsTransformedArgument ==
    LastOp.k \in {"set", "new"} =>
        \A m \in created : SetIn(m) =>
            LET x == trace[SetIdx(m)].v
            IN /\ trace[EndIdx(m)].v = ApplyTransformer(transformer[m], x)
               /\ get(m) = ApplyTransformer(transformer[m], x)
               /\ transformer[m] = "none" => get(m) = x

\* C13 witness: set(15, false) on a node whose transformer clamps to 5 and
\* which held 5: get() returns 5.
C13_Witness ==
    /\ LastOp.k = "set" /\ LastOp.s = 0 /\ LastOp.v = "15"
    /\ transformer[LastOp.n] = "cap"
    /\ lastSet[LastOp.n].from = "5"
    /\ get(LastOp.n) = "5"

\* C14: in every state after a node's construction both current and previous
\* hold a value of the node's value type, and right after construction
\* previous equals the committed initial value, so that a freshly constructed
\* numeric node has a difference of 0 between current and previous.
C14_ValidValuesSeeded ==
    /\ \A n \in created : current[n] \in Values /\ prev[n] \in Values
    /\ LastOp.k = "new" =>
           /\ prev[LastOp.n] = current[LastOp.n]
           /\ canTrackVelocity[LastOp.n] =>
                  Minus(parseFloat(current[LastOp.n]),
                        parseFloat(prev[LastOp.n])) = Num(0)

\* The nodes reached from the nodes of S through child sets, in at most k
\* further steps; the descendants of a node.
RECURSIVE Below(_, _)
Below(S, k) ==
    IF k = 0 THEN S
    ELSE Below(S \cup UNION {Range(children[m]) : m \in S}, k - 1)

Descendants(n) == Below(Range(children[n]), MaxNodes)

\* The child sets that contain node c.
Holders(c) == {p \in created : c \in Range(children[p])}

\* C15: the node returned by P.addChild(config), whatever the config, has
\* parent P, takes its initial value from P's current value and is in P's
\* child set; every member of a node's child set has that node as its parent
\* reference, and after C.destroy() no child set contains C.
C15_ChildParentIsOwner ==
    /\ \A p \in created : \A c \in Range(children[p]) : parent[c] = p
    /\ LastOp.k = "new" =>
           \A p \in Holders(LastOp.n) :
               parent[LastOp.n] = p /\ LastOp.v = current[p]
    /\ (LastOp.k = "destroy") => Holders(LastOp.n) = {}

\* C18: destroy() on a node D leaves the value, the subscriber sets, the
\* animation handle and the parent reference of each child of D unchanged,
\* and after the destroy a set on any node above D (any node that is neither
\* D nor below D) changes neither D's value nor the value of a child of D.
C18_DestroyOrphansChildren ==
    /\ [][\A d \in created :
             (LastOp'.k = "destroy" /\ LastOp'.n = d) =>
                 \A c \in Range(children[d]) :
                     /\ current'[c] = current[c]
                     /\ updateSubscribers'[c] = updateSubscribers[c]
                     /\ renderSubscribers'[c] = renderSubscribers[c]
                     /\ stopAnimation'[c] = stopAnimation[c]
                     /\ parent'[c] = parent[c]]_vars
    /\ [](\A d \in destroyed :
             (LastOp.k = "set" /\ LastOp.n \notin {d} \cup Descendants(d)) =>
                 \A c \in {d} \cup Range(children[d]) :
                     ~(SetIn(c) /\ Changed(c)))

\* How often the last operation called set on node m.
SetCount(m) ==
    Cardinality({i \in 1..Len(trace) : trace[i].k = "set" /\ trace[i].n = m})

\* C20: every node is a member of at most one child set, no node is below
\* itself, and a set call calls set exactly once on the node and on each of
\* its descendants, and on no other node.
C20_Forest ==
    /\ \A c \in created : Cardinality(Holders(c)) <= 1
    /\ \A n \in created : n \notin Descendants(n)
    /\ LastOp.k = "set" =>
           \A m \in created :
               SetCount(m) = IF m \in {LastOp.n} \cup Descendants(LastOp.n)
                             THEN 1 ELSE 0

\* C20 witness: a set on a node with a child and a grandchild: each of the
\* three was visited once.
C20_Witness ==
    /\ LastOp.k = "set"
    /\ \E c \in Range(children[LastOp.n]) : children[c] # <<>>
    /\ Cardinality({LastOp.n} \cup Descendants(LastOp.n)) = 3
    /\ \A m \in {LastOp.n} \cup Descendants(LastOp.n) : SetCount(m) = 1

\* C16: a set on a node with render = false notifies none of the node's own
\* render subscribers, and sets every descendant with rendering on: each
\* render subscriber of each descendant is notified exactly once.
C16_PropagationRenders ==
    (LastOp.k = "set" /\ LastOp.s = 0) =>
        /\ \A id \in RenderSubs :
               subs[id].n = LastOp.n => Count("render", id) = 0
        /\ \A m \in Descendants(LastOp.n) :
               /\ RenderedSetIn(m)
               /\ \A id \in RenderSubs :
                      (subs[id].n = m /\ Subscribed(id))
                          => Count("render", id) = 1

\* C16 witness: set(v, false) on a node with a render subscriber, whose child
\* and grandchild have a render subscriber each: the node's own subscriber
\* was not notified, the other two were, once.
C16_Witness ==
    /\ LastOp.k = "set" /\ LastOp.s = 0
    /\ \E a \in RenderSubs, b \in RenderSubs, c \in RenderSubs :
        /\ subs[a].n = LastOp.n
        /\ subs[b].n \in Range(children[LastOp.n])
        /\ subs[c].n \in Range(children[subs[b].n])
        /\ Count("render", a) = 0
        /\ Count("render", b) = 1 /\ Count("render", c) = 1

\* The postRender callbacks of node n waiting in buffer q.
CallbacksOf(q, n) == SelectSeq(q, LAMBDA cb : cb.n = n)

\* C17: of the set calls made on one node while the clock's timestamp is the
\* same, the first records timeDelta and lastUpdated and registers the
\* node's post-render callback; every later one leaves timeDelta and
\* lastUpdated unchanged and registers nothing; no callback of the node waits
\* twice for the next post-render pass.
C17_OncePerFrame ==
    /\ [][\A n \in NodeIds :
             (LastOp'.k \in {"set", "new"} /\ SetIn(n)') =>
                 IF lastSet[n].stamp # frame.timestamp
                 THEN /\ timeDelta'[n] = frame.delta
                      /\ lastUpdated'[n] = frame.timestamp
                      /\ Cb("scheduleVelocityCheck", n)
                             \in Range(toRunNextFrame')
                 ELSE /\ timeDelta'[n] = timeDelta[n]
                      /\ lastUpdated'[n] = lastUpdated[n]
                      /\ CallbacksOf(toRunNextFrame', n)
                             = CallbacksOf(toRunNextFrame, n)]_vars
    /\ [](\A n \in created :
             Len(CallbacksOf(toRunNextFrame, n))
                 = Cardinality(Range(CallbacksOf(toRunNextFrame, n))))

\* The last operation called no cancellation function.
NoCancel == \A i \in 1..Len(trace) : trace[i].k # "cancel"

\* C19 as stated: no cancellation function is ever invoked more than once,
\* and a stop() or destroy() on a node with no stored handle invokes no
\* cancellation function and leaves the node's value, subscriber sets and
\* children unchanged.
C19_CancelOnceNoHandleNoEffect ==
    /\ [](\A d \in 1..Len(drivers) : drivers[d].cancels <= 1)
    /\ [][\A n \in created :
             (/\ LastOp'.k \in {"stop", "destroy"} /\ LastOp'.n = n
              /\ ~isAnimating(n)) =>
                 /\ NoCancel' /\ drivers' = drivers
                 /\ current'[n] = current[n]
                 /\ children'[n] = children[n]
                 /\ updateSubscribers'[n] = updateSubscribers[n]
                 /\ renderSubscribers'[n] = renderSubscribers[n]]_vars

\* C19 as amended: no cancellation function is ever invoked more than once;
\* a stop() or destroy() on a node with no stored handle invokes no
\* cancellation function and leaves the node's value and children unchanged;
\* such a stop() leaves the subscriber sets unchanged too, while destroy()
\* empties them, as it always does.
C19_CancelOnceNoHandleNoCancel ==
    /\ [](\A d \in 1..Len(drivers) : drivers[d].cancels <= 1)
    /\ [][\A n \in created :
             (/\ LastOp'.k \in {"stop", "destroy"} /\ LastOp'.n = n
              /\ ~isAnimating(n)) =>
                 /\ NoCancel' /\ drivers' = drivers
                 /\ current'[n] = current[n]
                 /\ children'[n] = children[n]
                 /\ IF LastOp'.k = "stop"
                    THEN /\ updateSubscribers'[n] = updateSubscribers[n]
                         /\ renderSubscribers'[n] = renderSubscribers[n]
                    ELSE /\ updateSubscribers'[n] = <<>>
                         /\ renderSubscribers'[n] = <<>>]_vars

\* C19 witness: a destroy() that found no handle and called no cancellation
\* function, on a node that had a subscriber and has a child, and whose
\* earlier animation was cancelled, once, after it had completed.
C19_Witness ==
    /\ LastOp.k = "destroy" /\ NoCancel
    /\ children[LastOp.n] # <<>>
    /\ \E id \in deadSubs : subs[id].n = LastOp.n
    /\ \E d \in DriversOf(LastOp.n) :
           drivers[d].cancels = 1 /\ drivers[d].st = "completed"

====
